---- MODULE Spec2Model ----
(***************************************************************************)
(* MountainPeak Insurance dashboards: the data-quality monitor             *)
(* (01_DATA_QUALITY_DASHBOARD.py) and the risk-analytics view              *)
(* (02_RISK_ANALYTICS_DASHBOARD.py).                                       *)
(*                                                                         *)
(* Strings that the SQL text inspects with LIKE are modelled as sequences  *)
(* of one-character strings, so that LIKE is computed character by         *)
(* character, with both of its wildcards.                                  *)
(***************************************************************************)
EXTENDS Integers, Sequences, FiniteSets, TLC

VARIABLES
    app,             \* which page the process runs: "DQ" (01) or "RISK" (02)
    pc,              \* position of the script run (or of a query under study)
    now,             \* wall clock, in seconds
    last_load,       \* warehouse: MAX(LOAD_TIMESTAMP) of CLAIMS_RAW, in seconds
    dq_results,      \* warehouse: rows of DATA_QUALITY_MONITORING_RESULTS
    dmf_refs,        \* warehouse: rows of DATA_METRIC_FUNCTION_REFERENCES
    cache,           \* st.cache_data: one entry per cached function
    conn_state,      \* connections opened so far: "open" or "closed"
    called,          \* history: cached functions called by the last step
    ran,             \* history: those whose body the last step executed
    since_clear,     \* history: cached functions called since the last clear
    clears,          \* history: number of st.cache_data.clear() calls
    auto_refresh,    \* the "Auto-refresh (30s)" checkbox
    button,          \* the refresh button was pressed and not yet handled
    rendered,        \* what the current script run has put on the page
    recommendations, \* script variable recommendations, once rendered
    pipeline_data,   \* script variable pipeline_data
    dmf_data,        \* script variable dmf_data (a dataframe: sequence of rows)
    dmf_functions,   \* script variable dmf_functions
    overall_score,   \* script variable overall_score, as an exact fraction
    quality_rating,  \* script variable quality_rating
    analytics_data,  \* script variable analytics_data (02)
    governance_data, \* script variable governance_data (02)
    prev_card,       \* history: the quality score card of the previous run
    filters,         \* the three selectboxes above the detail table
    filtered_df,     \* script variable filtered_df: the rows of the detail table
    alerts           \* the alerts the current script run has shown

envvars    == <<now, last_load, dq_results, dmf_refs>>
cachevars  == <<cache, conn_state, called, ran, since_clear, clears>>
uivars     == <<auto_refresh, button, rendered, recommendations>>
scriptvars == <<pipeline_data, dmf_data, dmf_functions, overall_score, quality_rating,
                analytics_data, governance_data>>
detailvars == <<filters, filtered_df, alerts>>
vars == <<app, pc, envvars, cachevars, uivars, scriptvars, prev_card, detailvars>>

----------------------------------------------------------------------------
(* Bounds *)

MaxValue == 22       \* metric values range over 0..MaxValue
MaxMinutes == 151    \* load ages range over 0..MaxMinutes minutes (and half a minute more)
MaxRows == 4         \* quality rows of a dataframe whose score is computed
MaxTime == 90        \* the clock runs from 0 to MaxTime seconds
MaxClears == 1       \* presses of the refresh button that are followed

----------------------------------------------------------------------------
(* Metric names, character by character *)

s_NULL_COUNT      == <<"N", "U", "L", "L", "_", "C", "O", "U", "N", "T">>
s_DUPLICATE_COUNT == <<"D", "U", "P", "L", "I", "C", "A", "T", "E", "_", "C", "O", "U", "N", "T">>
s_INVALID_        == <<"I", "N", "V", "A", "L", "I", "D", "_">>
s_ROW_COUNT       == <<"R", "O", "W", "_", "C", "O", "U", "N", "T">>
s_NULLXCOUNT      == <<"N", "U", "L", "L", "X", "C", "O", "U", "N", "T">>
s_DUPLICATEXCOUNT == <<"D", "U", "P", "L", "I", "C", "A", "T", "E", "X", "C", "O", "U", "N", "T">>
s_INVALIDX        == <<"I", "N", "V", "A", "L", "I", "D", "X">>
s_CLAIMS_RAW_DOT  == <<"C", "L", "A", "I", "M", "S", "_", "R", "A", "W", ".">>
s_AGE             == <<"A", "G", "E">>

\* the three LIKE patterns of the query text
pat_NULL_COUNT      == <<"%">> \o s_NULL_COUNT
pat_DUPLICATE_COUNT == <<"%">> \o s_DUPLICATE_COUNT
pat_INVALID         == s_INVALID_ \o <<"%">>

NamePrefixes == {<<>>, s_INVALID_, s_INVALIDX, s_CLAIMS_RAW_DOT}
NameSuffixes == {s_NULL_COUNT, s_NULLXCOUNT, s_DUPLICATE_COUNT, s_DUPLICATEXCOUNT,
                 s_ROW_COUNT, s_AGE, <<>>}
MetricNames  == {p \o s : p \in NamePrefixes, s \in NameSuffixes} \ {<<>>}

\* literal (not LIKE) tests on a name
EndsWith(s, suffix) ==
    /\ Len(s) >= Len(suffix)
    /\ SubSeq(s, Len(s) - Len(suffix) + 1, Len(s)) = suffix

StartsWith(s, prefix) ==
    /\ Len(s) >= Len(prefix)
    /\ SubSeq(s, 1, Len(prefix)) = prefix

----------------------------------------------------------------------------
(* SQL of get_dmf_results *)

\* SQL LIKE: % matches any run of characters, _ matches exactly one character
RECURSIVE Like(_, _)
Like(s, p) ==
    IF p = <<>> THEN s = <<>>
    ELSE IF Head(p) = "%" THEN Like(s, Tail(p)) \/ (s # <<>> /\ Like(Tail(s), p))
    ELSE IF s = <<>> THEN FALSE
    ELSE IF Head(p) = "_" THEN Like(Tail(s), Tail(p))
    ELSE Head(s) = Head(p) /\ Like(Tail(s), Tail(p))

\* quality_status with the GOOD cutoff of null counts exclusive
quality_status_NullCutoff(metric_name, value) ==
    IF Like(metric_name, pat_NULL_COUNT) /\ value = 0 THEN "EXCELLENT"
    ELSE IF Like(metric_name, pat_NULL_COUNT) /\ value < 5 THEN "GOOD"
    ELSE IF Like(metric_name, pat_NULL_COUNT) /\ value <= 20 THEN "FAIR"
    ELSE IF Like(metric_name, pat_NULL_COUNT) THEN "NEEDS ATTENTION"
    ELSE IF Like(metric_name, pat_DUPLICATE_COUNT) /\ value = 0 THEN "EXCELLENT"
    ELSE IF Like(metric_name, pat_DUPLICATE_COUNT) /\ value <= 2 THEN "GOOD"
    ELSE IF Like(metric_name, pat_DUPLICATE_COUNT) THEN "NEEDS ATTENTION"
    ELSE IF Like(metric_name, pat_INVALID) /\ value = 0 THEN "EXCELLENT"
    ELSE IF Like(metric_name, pat_INVALID) /\ value <= 3 THEN "GOOD"
    ELSE IF Like(metric_name, pat_INVALID) THEN "NEEDS ATTENTION"
    ELSE "MONITORING"

\* quality_status with the duplicate-count cutoff taken from the invalid-value rule
quality_status_DupCutoff(metric_name, value) ==
    IF Like(metric_name, pat_NULL_COUNT) /\ value = 0 THEN "EXCELLENT"
    ELSE IF Like(metric_name, pat_NULL_COUNT) /\ value <= 5 THEN "GOOD"
    ELSE IF Like(metric_name, pat_NULL_COUNT) /\ value <= 20 THEN "FAIR"
    ELSE IF Like(metric_name, pat_NULL_COUNT) THEN "NEEDS ATTENTION"
    ELSE IF Like(metric_name, pat_DUPLICATE_COUNT) /\ value = 0 THEN "EXCELLENT"
    ELSE IF Like(metric_name, pat_DUPLICATE_COUNT) /\ value <= 3 THEN "GOOD"
    ELSE IF Like(metric_name, pat_DUPLICATE_COUNT) THEN "NEEDS ATTENTION"
    ELSE IF Like(metric_name, pat_INVALID) /\ value = 0 THEN "EXCELLENT"
    ELSE IF Like(metric_name, pat_INVALID) /\ value <= 3 THEN "GOOD"
    ELSE IF Like(metric_name, pat_INVALID) THEN "NEEDS ATTENTION"
    ELSE "MONITORING"

\* CASE ... END as quality_status
quality_status(metric_name, value) ==
    IF Like(metric_name, pat_NULL_COUNT) /\ value = 0 THEN "EXCELLENT"
    ELSE IF Like(metric_name, pat_NULL_COUNT) /\ value <= 5 THEN "GOOD"
    ELSE IF Like(metric_name, pat_NULL_COUNT) /\ value <= 20 THEN "FAIR"
    ELSE IF Like(metric_name, pat_NULL_COUNT) THEN "NEEDS ATTENTION"
    ELSE IF Like(metric_name, pat_DUPLICATE_COUNT) /\ value = 0 THEN "EXCELLENT"
    ELSE IF Like(metric_name, pat_DUPLICATE_COUNT) /\ value <= 2 THEN "GOOD"
    ELSE IF Like(metric_name, pat_DUPLICATE_COUNT) THEN "NEEDS ATTENTION"
    ELSE IF Like(metric_name, pat_INVALID) /\ value = 0 THEN "EXCELLENT"
    ELSE IF Like(metric_name, pat_INVALID) /\ value <= 3 THEN "GOOD"
    ELSE IF Like(metric_name, pat_INVALID) THEN "NEEDS ATTENTION"
    ELSE "MONITORING"

\* check_type with the invalid-value pattern tested first
check_type_ValidityFirst(metric_name) ==
    IF Like(metric_name, pat_INVALID) THEN "Validity"
    ELSE IF Like(metric_name, pat_NULL_COUNT) THEN "Completeness"
    ELSE IF Like(metric_name, pat_DUPLICATE_COUNT) THEN "Uniqueness"
    ELSE IF metric_name = s_ROW_COUNT THEN "Volume"
    ELSE "Other"

\* CASE ... END as check_type
check_type(metric_name) ==
    IF Like(metric_name, pat_NULL_COUNT) THEN "Completeness"
    ELSE IF Like(metric_name, pat_DUPLICATE_COUNT) THEN "Uniqueness"
    ELSE IF Like(metric_name, pat_INVALID) THEN "Validity"
    ELSE IF metric_name = s_ROW_COUNT THEN "Volume"
    ELSE "Other"

\* one result row of the SELECT (the time columns are not modelled)
DmfRow(r) ==
    [table_name     |-> r.table_name,
     metric_name    |-> r.metric_name,
     value          |-> r.value,
     quality_status |-> quality_status(r.metric_name, r.value),
     check_type     |-> check_type(r.metric_name)]

\* WHERE ... table_name IN ('CLAIMS_RAW', 'CUSTOMER_RAW')
InScope(r) == r.table_name \in {"CLAIMS_RAW", "CUSTOMER_RAW"}

\* the SELECT over the monitoring results; the stored order of the results
\* stands for the ORDER BY order (commit times are not modelled)
DmfQuery(results) ==
    LET kept == SelectSeq(results, InScope)
    IN  [i \in 1..Len(kept) |-> DmfRow(kept[i])]

----------------------------------------------------------------------------
(* The cached functions and the start values of the state *)

DQFuncs   == {"get_connection", "get_dmf_results", "get_pipeline_status",
              "get_dmf_active_functions"}
RiskFuncs == {"get_risk_analytics_data", "get_governance_validation"}
Funcs     == DQFuncs \cup RiskFuncs

NoEntry   == [present |-> FALSE]
Unset     == [kind |-> "unset"]
EmptyDict == [kind |-> "empty"]          \* the {} a failed fetch returns
ZeroScore == [num |-> 0, den |-> 1]      \* overall_score = 0

CacheStart ==
    /\ cache = [f \in Funcs |-> NoEntry]
    /\ conn_state = <<>>
    /\ called = << >>
    /\ ran = {}
    /\ since_clear = {}
    /\ clears = 0

\* the three selectboxes at their first option
AllFilters == [table_filter |-> "All", check_filter |-> "All", status_filter |-> "All"]

UIStart ==
    /\ button = FALSE
    /\ rendered = {}
    /\ recommendations = <<>>
    /\ filters = AllFilters
    /\ filtered_df = <<>>
    /\ alerts = <<>>

ScriptStart ==
    /\ pipeline_data = Unset
    /\ dmf_data = <<>>
    /\ dmf_functions = <<>>
    /\ overall_score = ZeroScore
    /\ quality_rating = "NO DATA"
    /\ analytics_data = Unset
    /\ governance_data = Unset
    /\ prev_card = Unset

----------------------------------------------------------------------------
(* Specification of the classification query on its own *)

TableNames == {"CLAIMS_RAW", "CUSTOMER_RAW", "POLICY_RAW"}

RawRow(t, n, v) == [table_name |-> t, metric_name |-> n, value |-> v]

InitClassify ==
    /\ app = "DQ"
    /\ pc = "query"
    /\ now = 0
    /\ last_load = 0
    /\ dq_results \in {<<RawRow(t, n, v)>> : t \in TableNames, n \in MetricNames, v \in 0..MaxValue}
    /\ dmf_refs = <<>>
    /\ auto_refresh = TRUE
    /\ CacheStart /\ UIStart /\ ScriptStart

RunDmfQuery ==
    /\ pc = "query"
    /\ dmf_data' = DmfQuery(dq_results)
    /\ pc' = "classified"
    /\ UNCHANGED <<app, envvars, cachevars, uivars, pipeline_data, dmf_functions,
                   overall_score, quality_rating, analytics_data, governance_data,
                   prev_card, detailvars>>

NextClassify == RunDmfQuery

SpecClassify == InitClassify /\ [][NextClassify]_vars

\* the rows the query returned, once it has run
Classified == IF pc = "classified" THEN {dmf_data[i] : i \in DOMAIN dmf_data} ELSE {}

\* C1: a metric whose name ends in NULL_COUNT is EXCELLENT at 0, GOOD up to 5,
\* FAIR up to 20 and NEEDS ATTENTION above 20.
C1_NullCountStatus ==
    \A r \in Classified :
        EndsWith(r.metric_name, s_NULL_COUNT) =>
            /\ (r.value = 0) => r.quality_status = "EXCELLENT"
            /\ (0 < r.value /\ r.value <= 5) => r.quality_status = "GOOD"
            /\ (5 < r.value /\ r.value <= 20) => r.quality_status = "FAIR"
            /\ (r.value > 20) => r.quality_status = "NEEDS ATTENTION"

C1_Witness ==
    \E r \in Classified :
        /\ r.metric_name = s_CLAIMS_RAW_DOT \o s_NULL_COUNT
        /\ r.value = 21
        /\ r.quality_status = "NEEDS ATTENTION"

\* C2: a metric whose name ends in DUPLICATE_COUNT is EXCELLENT at 0, GOOD up
\* to 2 and NEEDS ATTENTION above 2, and is never FAIR.
C2_DuplicateCountStatus ==
    \A r \in Classified :
        EndsWith(r.metric_name, s_DUPLICATE_COUNT) =>
            /\ (r.value = 0) => r.quality_status = "EXCELLENT"
            /\ (0 < r.value /\ r.value <= 2) => r.quality_status = "GOOD"
            /\ (r.value > 2) => r.quality_status = "NEEDS ATTENTION"
            /\ r.quality_status # "FAIR"

C2_Witness ==
    \E r \in Classified :
        /\ r.metric_name = s_INVALID_ \o s_DUPLICATE_COUNT
        /\ r.value = 3
        /\ r.quality_status = "NEEDS ATTENTION"

\* an invalid-value metric as the claim words it: the name starts with INVALID_
\* and ends in neither NULL_COUNT nor DUPLICATE_COUNT
IsInvalidValueName(n) ==
    /\ StartsWith(n, s_INVALID_)
    /\ ~EndsWith(n, s_NULL_COUNT)
    /\ ~EndsWith(n, s_DUPLICATE_COUNT)

\* C3: an invalid-value metric is EXCELLENT at 0, GOOD up to 3 and NEEDS
\* ATTENTION above 3.
C3_InvalidValueStatus ==
    \A r \in Classified :
        IsInvalidValueName(r.metric_name) =>
            /\ (r.value = 0) => r.quality_status = "EXCELLENT"
            /\ (0 < r.value /\ r.value <= 3) => r.quality_status = "GOOD"
            /\ (r.value > 3) => r.quality_status = "NEEDS ATTENTION"

\* the check type the claim assigns to a name, first family first
ClaimedCheckType(n) ==
    IF EndsWith(n, s_NULL_COUNT) THEN "Completeness"
    ELSE IF EndsWith(n, s_DUPLICATE_COUNT) THEN "Uniqueness"
    ELSE IF StartsWith(n, s_INVALID_) THEN "Validity"
    ELSE IF n = s_ROW_COUNT THEN "Volume"
    ELSE "Other"

\* C4: every row gets the check type of its name (Completeness, Uniqueness,
\* Validity, Volume, else Other), and (CLAIMS_RAW.NULL_COUNT, 3) is GOOD with
\* check type Completeness.
C4_CheckType ==
    \A r \in Classified :
        /\ r.check_type = ClaimedCheckType(r.metric_name)
        /\ (r.metric_name = s_CLAIMS_RAW_DOT \o s_NULL_COUNT /\ r.value = 3) =>
               (r.quality_status = "GOOD" /\ r.check_type = "Completeness")

\* the patterns a name matches, and the first of them in the order
\* null-count, duplicate-count, invalid-value
MatchedFamilies(n) ==
    (IF Like(n, pat_NULL_COUNT) THEN {"null-count"} ELSE {})
    \cup (IF Like(n, pat_DUPLICATE_COUNT) THEN {"duplicate-count"} ELSE {})
    \cup (IF Like(n, pat_INVALID) THEN {"invalid-value"} ELSE {})

FirstFamily(n) ==
    IF "null-count" \in MatchedFamilies(n) THEN "null-count"
    ELSE IF "duplicate-count" \in MatchedFamilies(n) THEN "duplicate-count"
    ELSE IF "invalid-value" \in MatchedFamilies(n) THEN "invalid-value"
    ELSE "none"

\* the status a family gives a value, and the check type of a family
FamilyStatus(family, v) ==
    CASE family = "null-count" ->
             IF v = 0 THEN "EXCELLENT" ELSE IF v <= 5 THEN "GOOD"
             ELSE IF v <= 20 THEN "FAIR" ELSE "NEEDS ATTENTION"
      [] family = "duplicate-count" ->
             IF v = 0 THEN "EXCELLENT" ELSE IF v <= 2 THEN "GOOD" ELSE "NEEDS ATTENTION"
      [] family = "invalid-value" ->
             IF v = 0 THEN "EXCELLENT" ELSE IF v <= 3 THEN "GOOD" ELSE "NEEDS ATTENTION"
      [] family = "none" -> "MONITORING"

FamilyCheckTypes(family) ==
    CASE family = "null-count" -> {"Completeness"}
      [] family = "duplicate-count" -> {"Uniqueness"}
      [] family = "invalid-value" -> {"Validity"}
      [] family = "none" -> {"Volume", "Other"}

\* C17: a row is MONITORING exactly when its name matches none of the three
\* patterns, which is exactly when its check type is Volume or Other; status
\* and check type both come from the first matching family, in the order
\* null-count, duplicate-count, invalid-value.
C17_MonitoringIffNoPattern ==
    \A r \in Classified :
        LET family == FirstFamily(r.metric_name)
        IN  /\ (r.quality_status = "MONITORING") <=> (MatchedFamilies(r.metric_name) = {})
            /\ (MatchedFamilies(r.metric_name) = {}) <=> (r.check_type \in {"Volume", "Other"})
            /\ r.quality_status = FamilyStatus(family, r.value)
            /\ r.check_type \in FamilyCheckTypes(family)

\* a name that matches two patterns: the null-count family decides both
C17_Witness ==
    \E r \in Classified :
        /\ r.metric_name = s_INVALID_ \o s_NULL_COUNT
        /\ MatchedFamilies(r.metric_name) = {"null-count", "invalid-value"}
        /\ r.value = 4
        /\ r.quality_status = "GOOD"
        /\ r.check_type = "Completeness"

----------------------------------------------------------------------------
(* SQL of get_pipeline_status: the data_freshness query *)

\* DATEDIFF('MINUTE', a, b): the number of minute boundaries between a and b
DateDiffMinute(a, b) == (b \div 60) - (a \div 60)

\* FRESHNESS_STATUS with the FRESH cutoff exclusive
FRESHNESS_STATUS_Exclusive(minutes) ==
    IF minutes < 30 THEN "FRESH"
    ELSE IF minutes <= 120 THEN "ACCEPTABLE"
    ELSE "STALE"

\* CASE ... END as FRESHNESS_STATUS
FRESHNESS_STATUS(minutes) ==
    IF minutes <= 30 THEN "FRESH"
    ELSE IF minutes <= 120 THEN "ACCEPTABLE"
    ELSE "STALE"

\* the one row of the data_freshness query
data_freshness(load, t) ==
    [MINUTES_SINCE_LOAD |-> DateDiffMinute(load, t),
     FRESHNESS_STATUS   |-> FRESHNESS_STATUS(DateDiffMinute(load, t))]

\* the dictionary get_pipeline_status returns when both queries succeed (the
\* pipeline_summary row holds only figures the page prints)
PipelineResults(load, t) ==
    [kind |-> "results", data_freshness |-> data_freshness(load, t)]

----------------------------------------------------------------------------
(* Specification of the freshness query on its own *)

InitFresh ==
    /\ app = "DQ"
    /\ pc = "query"
    /\ now \in {0, 30}
    /\ last_load \in {0 - (m * 60 + s) : m \in 0..MaxMinutes, s \in {0, 30}}
    /\ dq_results = <<>>
    /\ dmf_refs = <<>>
    /\ auto_refresh = TRUE
    /\ CacheStart /\ UIStart /\ ScriptStart

RunFreshnessQuery ==
    /\ pc = "query"
    /\ pipeline_data' = PipelineResults(last_load, now)
    /\ pc' = "measured"
    /\ UNCHANGED <<app, envvars, cachevars, uivars, dmf_data, dmf_functions,
                   overall_score, quality_rating, analytics_data, governance_data,
                   prev_card, detailvars>>

NextFresh == RunFreshnessQuery

SpecFresh == InitFresh /\ [][NextFresh]_vars

\* C7: with m minutes since the last load, the freshness status is FRESH for
\* m <= 30, ACCEPTABLE for 30 < m <= 120 and STALE for m > 120 (30 FRESH, 31
\* and 120 ACCEPTABLE, 121 STALE).
C7_FreshnessStatus ==
    pc = "measured" =>
        LET m == pipeline_data.data_freshness.MINUTES_SINCE_LOAD
            s == pipeline_data.data_freshness.FRESHNESS_STATUS
        IN  /\ m = DateDiffMinute(last_load, now)
            /\ (m <= 30) => s = "FRESH"
            /\ (30 < m /\ m <= 120) => s = "ACCEPTABLE"
            /\ (m > 120) => s = "STALE"
            /\ (m = 30) => s = "FRESH"
            /\ (m = 31 \/ m = 120) => s = "ACCEPTABLE"
            /\ (m = 121) => s = "STALE"

C7_Witness ==
    /\ pc = "measured"
    /\ pipeline_data.data_freshness.MINUTES_SINCE_LOAD = 121
    /\ pipeline_data.data_freshness.FRESHNESS_STATUS = "STALE"

----------------------------------------------------------------------------
(* The overall DMF quality status of the page *)

\* len(dmf_data[dmf_data['quality_status'] == s])
CountStatus(df, s) == Cardinality({i \in DOMAIN df : df[i].quality_status = s})

\* overall_score over the rows that have a grade only
CalcOverallScore_GradedOnly(df) ==
    IF df # <<>> /\ CountStatus(df, "EXCELLENT") + CountStatus(df, "GOOD") > 0
    THEN [num |-> CountStatus(df, "EXCELLENT") * 100 + CountStatus(df, "GOOD") * 85,
          den |-> CountStatus(df, "EXCELLENT") + CountStatus(df, "GOOD")]
    ELSE ZeroScore

\* overall_score as the script leaves it: the fraction num/den, not rounded
CalcOverallScore(df) ==
    IF df # <<>>
    THEN LET excellent_count == CountStatus(df, "EXCELLENT")
             good_count      == CountStatus(df, "GOOD")
             total_checks    == Len(df)
         IN  IF total_checks > 0
             THEN [num |-> (excellent_count * 100) + (good_count * 85), den |-> total_checks]
             ELSE ZeroScore
    ELSE ZeroScore

\* score >= n, for a fraction score and a whole number n
ScoreAtLeast(score, n) == score.num >= n * score.den

\* quality_rating as the script leaves it
CalcQualityRating(df) ==
    IF df # <<>> /\ Len(df) > 0
    THEN LET score == CalcOverallScore(df)
         IN  IF ScoreAtLeast(score, 95) THEN "EXCELLENT"
             ELSE IF ScoreAtLeast(score, 85) THEN "GOOD"
             ELSE IF ScoreAtLeast(score, 70) THEN "FAIR"
             ELSE "NEEDS ATTENTION"
    ELSE "NO DATA"

----------------------------------------------------------------------------
(* Specification of the score computation on its own: the monitoring results
   are measured again, one metric at a time, and the script runs again *)

\* one stored measurement for each status the query can give
SampleRows ==
    {RawRow("CLAIMS_RAW", s_NULL_COUNT, 0),        \* EXCELLENT
     RawRow("CLAIMS_RAW", s_NULL_COUNT, 3),        \* GOOD
     RawRow("CUSTOMER_RAW", s_NULL_COUNT, 10),     \* FAIR
     RawRow("CUSTOMER_RAW", s_NULL_COUNT, 21),     \* NEEDS ATTENTION
     RawRow("CLAIMS_RAW", s_ROW_COUNT, 7)}         \* MONITORING

SampleTables == UNION {[1..n -> SampleRows] : n \in 0..MaxRows}

\* what the quality score card of a run shows
ScoreCard(df) ==
    [kind      |-> "card",
     score     |-> CalcOverallScore(df),
     rating    |-> CalcQualityRating(df),
     excellent |-> CountStatus(df, "EXCELLENT"),
     good      |-> CountStatus(df, "GOOD"),
     total     |-> Len(df)]

InitScore ==
    /\ app = "DQ"
    /\ pc = "fetched"
    /\ now = 0
    /\ last_load = 0
    /\ dq_results \in SampleTables
    /\ dmf_refs = <<>>
    /\ auto_refresh = TRUE
    /\ CacheStart /\ UIStart
    /\ pipeline_data = Unset
    /\ dmf_data = DmfQuery(dq_results)
    /\ dmf_functions = <<>>
    /\ overall_score = ZeroScore
    /\ quality_rating = "NO DATA"
    /\ analytics_data = Unset
    /\ governance_data = Unset
    /\ prev_card = Unset

\* lines 235-252 of the script
CalcScore ==
    /\ pc = "fetched"
    /\ overall_score' = CalcOverallScore(dmf_data)
    /\ quality_rating' = CalcQualityRating(dmf_data)
    /\ pc' = "scored"
    /\ UNCHANGED <<app, envvars, cachevars, uivars, pipeline_data, dmf_data,
                   dmf_functions, analytics_data, governance_data, prev_card, detailvars>>

\* one metric is measured again and the script runs again on the new results
Remeasure ==
    /\ pc = "scored"
    /\ \E i \in DOMAIN dq_results, r \in SampleRows :
          /\ r # dq_results[i]
          /\ dq_results' = [dq_results EXCEPT ![i] = r]
    /\ dmf_data' = DmfQuery(dq_results')
    /\ overall_score' = CalcOverallScore(dmf_data')
    /\ quality_rating' = CalcQualityRating(dmf_data')
    /\ prev_card' = ScoreCard(dmf_data)
    /\ pc' = "rescored"
    /\ UNCHANGED <<app, now, last_load, dmf_refs, cachevars, uivars, pipeline_data,
                   dmf_functions, analytics_data, governance_data, detailvars>>

NextScore == CalcScore \/ Remeasure

SpecScore == InitScore /\ [][NextScore]_vars

\* the script has computed the score of dmf_data
Scored == pc \in {"scored", "rescored"}

\* the statuses of the rows of a dataframe, in order
Statuses(df) == [i \in DOMAIN df |-> df[i].quality_status]

\* C5: for a non-empty set of quality rows the score is
\* (excellent_count*100 + good_count*85) / total_checks over all rows, rated
\* EXCELLENT from 95, GOOD from 85, FAIR from 70 and NEEDS ATTENTION below 70;
\* [EXCELLENT, EXCELLENT, GOOD, NEEDS ATTENTION] scores 71.25 and is FAIR.
C5_PortfolioScore ==
    (Scored /\ dmf_data # <<>>) =>
        LET e     == Cardinality({i \in DOMAIN dmf_data : dmf_data[i].quality_status = "EXCELLENT"})
            g     == Cardinality({i \in DOMAIN dmf_data : dmf_data[i].quality_status = "GOOD"})
            total == Len(dmf_data)
            n     == e * 100 + g * 85
        IN  /\ overall_score.num * total = n * overall_score.den
            /\ (n >= 95 * total) => quality_rating = "EXCELLENT"
            /\ (85 * total <= n /\ n < 95 * total) => quality_rating = "GOOD"
            /\ (70 * total <= n /\ n < 85 * total) => quality_rating = "FAIR"
            /\ (n < 70 * total) => quality_rating = "NEEDS ATTENTION"
            /\ (Statuses(dmf_data) = <<"EXCELLENT", "EXCELLENT", "GOOD", "NEEDS ATTENTION">>) =>
                   /\ overall_score.num * 100 = 7125 * overall_score.den
                   /\ quality_rating = "FAIR"

C5_Witness ==
    /\ Scored
    /\ Statuses(dmf_data) = <<"EXCELLENT", "EXCELLENT", "GOOD", "NEEDS ATTENTION">>
    /\ overall_score.num * 100 = 7125 * overall_score.den
    /\ quality_rating = "FAIR"

\* the ratings from worst to best
RatingRank(rating) ==
    CASE rating = "NEEDS ATTENTION" -> 0
      [] rating = "FAIR" -> 1
      [] rating = "GOOD" -> 2
      [] rating = "EXCELLENT" -> 3

\* the score card of this run against that of the previous run
MoreExcellent == prev_card.excellent < CountStatus(dmf_data, "EXCELLENT") /\ prev_card.good = CountStatus(dmf_data, "GOOD")
MoreGood      == prev_card.good < CountStatus(dmf_data, "GOOD") /\ prev_card.excellent = CountStatus(dmf_data, "EXCELLENT")

\* C6: with total_checks fixed, the score does not decrease and the rating
\* does not get worse when excellent_count grows with good_count fixed, nor
\* when good_count grows with excellent_count fixed.
C6_ScoreMonotone ==
    (pc = "rescored" /\ prev_card.total = Len(dmf_data)
        /\ (MoreExcellent \/ MoreGood)) =>
        /\ overall_score.num * prev_card.score.den >= prev_card.score.num * overall_score.den
        /\ RatingRank(quality_rating) >= RatingRank(prev_card.rating)

C6_Witness ==
    /\ pc = "rescored" /\ prev_card.total = Len(dmf_data)
    /\ MoreGood
    /\ overall_score.num * prev_card.score.den > prev_card.score.num * overall_score.den
    /\ RatingRank(quality_rating) > RatingRank(prev_card.rating)

----------------------------------------------------------------------------
(* st.cache_data: the time-to-live memoization of the query functions *)

ttl_get_connection            == 60
ttl_get_dmf_results           == 30
ttl_get_pipeline_status       == 30
ttl_get_dmf_active_functions  == 60
ttl_get_risk_analytics_data   == 30
ttl_get_governance_validation == 60
sleep_seconds                 == 30

TTL(f) ==
    CASE f = "get_connection" -> ttl_get_connection
      [] f = "get_dmf_results" -> ttl_get_dmf_results
      [] f = "get_pipeline_status" -> ttl_get_pipeline_status
      [] f = "get_dmf_active_functions" -> ttl_get_dmf_active_functions
      [] f = "get_risk_analytics_data" -> ttl_get_risk_analytics_data
      [] f = "get_governance_validation" -> ttl_get_governance_validation

\* an entry that is still served when its age equals the time to live
IsCached_Inclusive(f, c, t) == c[f].present /\ t - c[f].at <= TTL(f)

\* the entry of f in c is served at time t: it exists and is younger than ttl
IsCached(f, c, t) == c[f].present /\ t - c[f].at < TTL(f)

\* the entry a call stores (history: gen, the clears that came before it, and
\* ok, whether the body that returned v had connected and queried successfully)
Entry(v, ok) == [present |-> TRUE, value |-> v, at |-> now, gen |-> clears, ok |-> ok]

\* a clear that spares the cached connection
CacheClear_KeepConnection(c) ==
    [f \in Funcs |-> IF f = "get_connection" THEN c[f] ELSE NoEntry]

\* st.cache_data.clear(): every entry of every cached function goes
CacheClear(c) == [f \in Funcs |-> NoEntry]

----------------------------------------------------------------------------
(* The fetch functions of the data-quality page *)

\* get_connection() called with cache c and connections cs; connect_ok says
\* whether snowflake.connector.connect succeeds. A connection is its index in
\* cs, None is 0. The cache hands back the connection object it was given.
get_connection(c, cs, connect_ok) ==
    IF IsCached("get_connection", c, now)
    THEN [cache |-> c, conns |-> cs, conn |-> c["get_connection"].value,
          ran |-> {}, errors |-> {}]
    ELSE IF connect_ok
    THEN [cache |-> [c EXCEPT !["get_connection"] = Entry(Len(cs) + 1, TRUE)],
          conns |-> Append(cs, "open"), conn |-> Len(cs) + 1,
          ran |-> {"get_connection"}, errors |-> {}]
    ELSE [cache |-> [c EXCEPT !["get_connection"] = Entry(0, FALSE)],
          conns |-> cs, conn |-> 0,
          ran |-> {"get_connection"}, errors |-> {"Failed to connect to Snowflake"}]

\* what a fetch function returns without data: pd.DataFrame() or {}
EmptyResult(f) == IF f = "get_pipeline_status" THEN EmptyDict ELSE <<>>

\* what its queries return when they succeed
QueryResult(f) ==
    CASE f = "get_dmf_results" -> DmfQuery(dq_results)
      [] f = "get_pipeline_status" -> PipelineResults(last_load, now)
      [] f = "get_dmf_active_functions" -> dmf_refs

ErrorOf(f) ==
    CASE f = "get_dmf_results" -> "Error fetching DMF results"
      [] f = "get_pipeline_status" -> "Error fetching pipeline status"
      [] f = "get_dmf_active_functions" -> "Error fetching DMF functions"

\* the body of get_dmf_results, get_pipeline_status or get_dmf_active_functions:
\* get the connection, return empty without one, else query and close. A query
\* on a closed connection raises; query_ok says whether it succeeds otherwise.
FetchBody(f, connect_ok, query_ok) ==
    LET g       == get_connection(cache, conn_state, connect_ok)
        success == g.conn # 0 /\ g.conns[g.conn] = "open" /\ query_ok
        value   == IF success THEN QueryResult(f) ELSE EmptyResult(f)
    IN  [cache  |-> [g.cache EXCEPT ![f] = Entry(value, success)],
         conns  |-> IF g.conn = 0 THEN g.conns ELSE [g.conns EXCEPT ![g.conn] = "closed"],
         value  |-> value,
         calls  |-> (f :> value) @@ ("get_connection" :> g.conn),
         ran    |-> {f} \cup g.ran,
         errors |-> g.errors \cup (IF g.conn # 0 /\ ~success THEN {ErrorOf(f)} ELSE {})]

\* a call of the cached function f
CachedFetch(f, connect_ok, query_ok) ==
    IF IsCached(f, cache, now)
    THEN [cache |-> cache, conns |-> conn_state, value |-> cache[f].value,
          calls |-> (f :> cache[f].value), ran |-> {}, errors |-> {}]
    ELSE FetchBody(f, connect_ok, query_ok)

\* the effect of a call on the cache, the connections and the page
Fetched(r) ==
    /\ cache' = r.cache
    /\ conn_state' = r.conns
    /\ called' = r.calls
    /\ ran' = r.ran
    /\ since_clear' = since_clear \cup DOMAIN r.calls
    /\ rendered' = rendered \cup r.errors
    /\ UNCHANGED clears

\* a step that calls no cached function
NoCalls == called' = << >> /\ ran' = {}

----------------------------------------------------------------------------
(* The script of the data-quality page, top to bottom *)

\* a run starts with no script variable bound and an empty page
FreshRun ==
    /\ pipeline_data' = Unset
    /\ dmf_data' = <<>>
    /\ dmf_functions' = <<>>
    /\ overall_score' = ZeroScore
    /\ quality_rating' = "NO DATA"
    /\ analytics_data' = Unset
    /\ governance_data' = Unset
    /\ recommendations' = <<>>
    /\ filtered_df' = <<>>
    /\ alerts' = <<>>

\* header and refresh controls: the button clears the cache and reruns
DQ_Header ==
    /\ app = "DQ" /\ pc = "top"
    /\ FreshRun
    /\ rendered' = {"header"}
    /\ NoCalls
    /\ IF button
       THEN /\ cache' = CacheClear(cache)
            /\ clears' = clears + 1
            /\ since_clear' = {}
            /\ button' = FALSE
            /\ pc' = "top"
       ELSE /\ pc' = "autorefresh"
            /\ UNCHANGED <<cache, clears, since_clear, button>>
    /\ UNCHANGED <<app, envvars, conn_state, auto_refresh, prev_card, filters>>

\* if auto_refresh: time.sleep(30) ...
DQ_AutoRefresh ==
    /\ app = "DQ" /\ pc = "autorefresh"
    /\ pc' = IF auto_refresh THEN "sleeping" ELSE "fetch_pipeline"
    /\ NoCalls
    /\ UNCHANGED <<app, envvars, cache, conn_state, since_clear, clears, uivars,
                   scriptvars, prev_card, detailvars>>

\* ... the sleep ends and st.rerun() starts the script again
DQ_SleepRerun ==
    /\ app = "DQ" /\ pc = "sleeping"
    /\ now + sleep_seconds <= MaxTime
    /\ now' = now + sleep_seconds
    /\ pc' = "top"
    /\ NoCalls
    /\ UNCHANGED <<app, last_load, dq_results, dmf_refs, cache, conn_state, since_clear,
                   clears, uivars, scriptvars, prev_card, detailvars>>

\* pipeline_data = get_pipeline_status()
DQ_FetchPipeline ==
    /\ app = "DQ" /\ pc = "fetch_pipeline"
    /\ \E connect_ok, query_ok \in BOOLEAN :
          LET r == CachedFetch("get_pipeline_status", connect_ok, query_ok)
          IN  Fetched(r) /\ pipeline_data' = r.value
    /\ pc' = "fetch_dmf"
    /\ UNCHANGED <<app, envvars, auto_refresh, button, recommendations, dmf_data,
                   dmf_functions, overall_score, quality_rating, analytics_data,
                   governance_data, prev_card, detailvars>>

\* dmf_data = get_dmf_results()
DQ_FetchDmf ==
    /\ app = "DQ" /\ pc = "fetch_dmf"
    /\ \E connect_ok, query_ok \in BOOLEAN :
          LET r == CachedFetch("get_dmf_results", connect_ok, query_ok)
          IN  Fetched(r) /\ dmf_data' = r.value
    /\ pc' = "score"
    /\ UNCHANGED <<app, envvars, auto_refresh, button, recommendations, pipeline_data,
                   dmf_functions, overall_score, quality_rating, analytics_data,
                   governance_data, prev_card, detailvars>>

\* the overall DMF quality status
DQ_Score ==
    /\ app = "DQ" /\ pc = "score"
    /\ overall_score' = CalcOverallScore(dmf_data)
    /\ quality_rating' = CalcQualityRating(dmf_data)
    /\ pc' = "overview"
    /\ NoCalls
    /\ UNCHANGED <<app, envvars, cache, conn_state, since_clear, clears, uivars,
                   pipeline_data, dmf_data, dmf_functions, analytics_data,
                   governance_data, prev_card, detailvars>>

\* a dictionary is truthy when it has a key
Truthy(d) == d.kind = "results"

\* the four metric cards, when there is pipeline data
DQ_Overview ==
    /\ app = "DQ" /\ pc = "overview"
    /\ rendered' = rendered \cup (IF Truthy(pipeline_data) THEN {"overview"} ELSE {})
    /\ pc' = "detail"
    /\ NoCalls
    /\ UNCHANGED <<app, envvars, cache, conn_state, since_clear, clears, auto_refresh,
                   button, recommendations, scriptvars, prev_card, detailvars>>

\* ["All"] + list(dmf_data[column].unique()): the options of each selectbox
Options(df) ==
    [table_filter  |-> {"All"} \cup {df[i].table_name : i \in DOMAIN df},
     check_filter  |-> {"All"} \cup {df[i].check_type : i \in DOMAIN df},
     status_filter |-> {"All"} \cup {df[i].quality_status : i \in DOMAIN df}]

\* what the selectboxes return: a box keeps the user's choice while that choice
\* is among its options, and shows its first option otherwise
WidgetValues(flt, df) ==
    [w \in DOMAIN flt |-> IF flt[w] \in Options(df)[w] THEN flt[w] ELSE "All"]

\* filtered_df with the status filter taken over the whole frame
ApplyFilters_StatusOfFrame(df, flt) ==
    LET ByTable(r)  == r.table_name = flt.table_filter
        ByCheck(r)  == r.check_type = flt.check_filter
        ByStatus(r) == r.quality_status = flt.status_filter
        step1 == IF flt.table_filter # "All" THEN SelectSeq(df, ByTable) ELSE df
        step2 == IF flt.check_filter # "All" THEN SelectSeq(step1, ByCheck) ELSE step1
        step3 == IF flt.status_filter # "All" THEN SelectSeq(df, ByStatus) ELSE step2
    IN  step3

\* filtered_df: a copy of the frame, cut down by each filter that is not "All"
ApplyFilters(df, flt) ==
    LET ByTable(r)  == r.table_name = flt.table_filter
        ByCheck(r)  == r.check_type = flt.check_filter
        ByStatus(r) == r.quality_status = flt.status_filter
        step1 == IF flt.table_filter # "All" THEN SelectSeq(df, ByTable) ELSE df
        step2 == IF flt.check_filter # "All" THEN SelectSeq(step1, ByCheck) ELSE step1
        step3 == IF flt.status_filter # "All" THEN SelectSeq(step2, ByStatus) ELSE step2
    IN  step3

\* the charts, the filters and the detail table, when there are quality rows;
\* selectboxes that a run does not render lose their state
DQ_Detail ==
    /\ app = "DQ" /\ pc = "detail"
    /\ IF dmf_data # <<>>
       THEN /\ filters' = WidgetValues(filters, dmf_data)
            /\ filtered_df' = ApplyFilters(dmf_data, filters')
            /\ rendered' = rendered \cup {"detail"}
       ELSE /\ filters' = AllFilters
            /\ UNCHANGED <<filtered_df, rendered>>
    /\ pc' = "fetch_functions"
    /\ NoCalls
    /\ UNCHANGED <<app, envvars, cache, conn_state, since_clear, clears, auto_refresh,
                   button, recommendations, scriptvars, prev_card, alerts>>

\* dmf_functions = get_dmf_active_functions()
DQ_FetchFunctions ==
    /\ app = "DQ" /\ pc = "fetch_functions"
    /\ \E connect_ok, query_ok \in BOOLEAN :
          LET r == CachedFetch("get_dmf_active_functions", connect_ok, query_ok)
          IN  Fetched(r) /\ dmf_functions' = r.value
    /\ pc' = "functions"
    /\ UNCHANGED <<app, envvars, auto_refresh, button, recommendations, pipeline_data,
                   dmf_data, overall_score, quality_rating, analytics_data,
                   governance_data, prev_card, detailvars>>

\* the active functions, the trends and the quality analysis summary
DQ_Functions ==
    /\ app = "DQ" /\ pc = "functions"
    /\ rendered' = rendered
          \cup (IF dmf_functions # <<>> THEN {"functions"} ELSE {})
          \cup (IF dmf_functions # <<>> /\ dmf_data # <<>> THEN {"trends"} ELSE {})
          \cup (IF dmf_data # <<>> THEN {"summary"} ELSE {})
    /\ pc' = "alerts"
    /\ NoCalls
    /\ UNCHANGED <<app, envvars, cache, conn_state, since_clear, clears, auto_refresh,
                   button, recommendations, scriptvars, prev_card, detailvars>>

\* severity with the cutoff inclusive
Severity_From10(value) == IF value >= 10 THEN "Critical" ELSE "Warning"

\* severity = "Critical" if row['value'] > 10 else "Warning"
Severity(value) == IF value > 10 THEN "Critical" ELSE "Warning"

\* issues = the NEEDS ATTENTION rows of the frame; one alert for each, in order
AlertsOf(df) ==
    LET NeedsAttention(r) == r.quality_status = "NEEDS ATTENTION"
        issues == SelectSeq(df, NeedsAttention)
    IN  [i \in DOMAIN issues |->
            [severity    |-> Severity(issues[i].value),
             table_name  |-> issues[i].table_name,
             metric_name |-> issues[i].metric_name,
             value       |-> issues[i].value]]

\* the alerts section drawn from the rows of the detail table
DQ_Alerts_OfDetailTable ==
    /\ app = "DQ" /\ pc = "alerts"
    /\ IF dmf_data # <<>>
       THEN /\ alerts' = AlertsOf(filtered_df)
            /\ rendered' = rendered \cup (IF alerts' # <<>> THEN {"issues"}
                                          ELSE {"all checks are excellent"})
       ELSE UNCHANGED <<alerts, rendered>>
    /\ pc' = "recommendations"
    /\ NoCalls
    /\ UNCHANGED <<app, envvars, cache, conn_state, since_clear, clears, auto_refresh,
                   button, recommendations, scriptvars, prev_card, filters, filtered_df>>

\* the alerts: one for each issue, or the success message when there is none
DQ_Alerts ==
    /\ app = "DQ" /\ pc = "alerts"
    /\ IF dmf_data # <<>>
       THEN /\ alerts' = AlertsOf(dmf_data)
            /\ rendered' = rendered \cup (IF alerts' # <<>> THEN {"issues"}
                                          ELSE {"all checks are excellent"})
       ELSE UNCHANGED <<alerts, rendered>>
    /\ pc' = "recommendations"
    /\ NoCalls
    /\ UNCHANGED <<app, envvars, cache, conn_state, since_clear, clears, auto_refresh,
                   button, recommendations, scriptvars, prev_card, filters, filtered_df>>

\* the recommendations with the "no recommendation" test placed above the
\* overall health check
Recommendations_OptimalBeforeHealth(pd, df, fns, score) ==
    LET quality  == IF df # <<>> /\ CountStatus(df, "NEEDS ATTENTION") > 0
                    THEN <<"DMF checks need attention">> ELSE <<>>
        fresh    == IF pd.data_freshness.FRESHNESS_STATUS = "STALE"
                    THEN <<"Data pipeline may need attention">> ELSE <<>>
        stopped  == IF fns # <<>> /\ \E i \in DOMAIN fns : fns[i].schedule_status # "STARTED"
                    THEN <<"DMF functions are not running">> ELSE <<>>
        health   == IF ~ScoreAtLeast(score, 85)
                    THEN <<"Overall DMF quality score is below optimal">> ELSE <<>>
        found    == quality \o fresh \o stopped
    IN  (IF Len(found) = 0 THEN <<"Pipeline is running optimally">> ELSE found) \o health

\* the recommendations list of the script, from its variables
Recommendations(pd, df, fns, score) ==
    LET quality  == IF df # <<>> /\ CountStatus(df, "NEEDS ATTENTION") > 0
                    THEN <<"DMF checks need attention">> ELSE <<>>
        fresh    == IF pd.data_freshness.FRESHNESS_STATUS = "STALE"
                    THEN <<"Data pipeline may need attention">> ELSE <<>>
        stopped  == IF fns # <<>> /\ \E i \in DOMAIN fns : fns[i].schedule_status # "STARTED"
                    THEN <<"DMF functions are not running">> ELSE <<>>
        health   == IF ~ScoreAtLeast(score, 85)
                    THEN <<"Overall DMF quality score is below optimal">> ELSE <<>>
        found    == quality \o fresh \o stopped \o health
    IN  IF Len(found) = 0 THEN <<"Pipeline is running optimally">> ELSE found

\* the pipeline health recommendations, when there is pipeline data
DQ_Recommendations ==
    /\ app = "DQ" /\ pc = "recommendations"
    /\ IF Truthy(pipeline_data)
       THEN /\ recommendations' = Recommendations(pipeline_data, dmf_data, dmf_functions,
                                                  overall_score)
            /\ rendered' = rendered \cup {"recommendations"}
       ELSE UNCHANGED <<recommendations, rendered>>
    /\ pc' = "footer"
    /\ NoCalls
    /\ UNCHANGED <<app, envvars, cache, conn_state, since_clear, clears, auto_refresh,
                   button, scriptvars, prev_card, detailvars>>

\* the footer ends the run; the page then waits for the user
DQ_Footer ==
    /\ app = "DQ" /\ pc = "footer"
    /\ rendered' = rendered \cup {"footer"}
    /\ pc' = "idle"
    /\ NoCalls
    /\ UNCHANGED <<app, envvars, cache, conn_state, since_clear, clears, auto_refresh,
                   button, recommendations, scriptvars, prev_card, detailvars>>

----------------------------------------------------------------------------
(* The script of the risk-analytics page *)

\* a call of get_risk_analytics_data or get_governance_validation: the queries
\* run on the active session; an exception is reported and {} returned
RiskFetch(f, query_ok) ==
    IF IsCached(f, cache, now)
    THEN [cache |-> cache, conns |-> conn_state, value |-> cache[f].value,
          calls |-> (f :> cache[f].value), ran |-> {}, errors |-> {}]
    ELSE LET value == IF query_ok THEN [kind |-> "results"] ELSE EmptyDict
         IN  [cache |-> [cache EXCEPT ![f] = Entry(value, query_ok)], conns |-> conn_state,
              value |-> value, calls |-> (f :> value), ran |-> {f},
              errors |-> IF query_ok THEN {}
                         ELSE IF f = "get_risk_analytics_data"
                              THEN {"Error fetching analytics data"}
                              ELSE {"Error testing governance"}]

Risk_Header ==
    /\ app = "RISK" /\ pc = "top"
    /\ FreshRun
    /\ rendered' = {"header"}
    /\ NoCalls
    /\ IF button
       THEN /\ cache' = CacheClear(cache)
            /\ clears' = clears + 1
            /\ since_clear' = {}
            /\ button' = FALSE
            /\ pc' = "top"
       ELSE /\ pc' = "autorefresh"
            /\ UNCHANGED <<cache, clears, since_clear, button>>
    /\ UNCHANGED <<app, envvars, conn_state, auto_refresh, prev_card, filters>>

Risk_AutoRefresh ==
    /\ app = "RISK" /\ pc = "autorefresh"
    /\ pc' = IF auto_refresh THEN "sleeping" ELSE "fetch_analytics"
    /\ NoCalls
    /\ UNCHANGED <<app, envvars, cache, conn_state, since_clear, clears, uivars,
                   scriptvars, prev_card, detailvars>>

Risk_SleepRerun ==
    /\ app = "RISK" /\ pc = "sleeping"
    /\ now + sleep_seconds <= MaxTime
    /\ now' = now + sleep_seconds
    /\ pc' = "top"
    /\ NoCalls
    /\ UNCHANGED <<app, last_load, dq_results, dmf_refs, cache, conn_state, since_clear,
                   clears, uivars, scriptvars, prev_card, detailvars>>

\* analytics_data = get_risk_analytics_data()
Risk_FetchAnalytics ==
    /\ app = "RISK" /\ pc = "fetch_analytics"
    /\ \E query_ok \in BOOLEAN :
          LET r == RiskFetch("get_risk_analytics_data", query_ok)
          IN  Fetched(r) /\ analytics_data' = r.value
    /\ pc' = "fetch_governance"
    /\ UNCHANGED <<app, envvars, auto_refresh, button, recommendations, pipeline_data,
                   dmf_data, dmf_functions, overall_score, quality_rating,
                   governance_data, prev_card, detailvars>>

\* governance_data = get_governance_validation()
Risk_FetchGovernance ==
    /\ app = "RISK" /\ pc = "fetch_governance"
    /\ \E query_ok \in BOOLEAN :
          LET r == RiskFetch("get_governance_validation", query_ok)
          IN  Fetched(r) /\ governance_data' = r.value
    /\ pc' = "check"
    /\ UNCHANGED <<app, envvars, auto_refresh, button, recommendations, pipeline_data,
                   dmf_data, dmf_functions, overall_score, quality_rating,
                   analytics_data, prev_card, detailvars>>

\* if not analytics_data: st.error(...); st.stop()
Risk_Check ==
    /\ app = "RISK" /\ pc = "check"
    /\ IF Truthy(analytics_data)
       THEN pc' = "sections" /\ UNCHANGED rendered
       ELSE pc' = "idle" /\ rendered' = rendered \cup {"Unable to load risk analytics data"}
    /\ NoCalls
    /\ UNCHANGED <<app, envvars, cache, conn_state, since_clear, clears, auto_refresh,
                   button, recommendations, scriptvars, prev_card, detailvars>>

\* the risk, age, geography and governance sections, down to the footer
Risk_Sections ==
    /\ app = "RISK" /\ pc = "sections"
    /\ rendered' = rendered \cup {"overview", "analysis"}
          \cup (IF Truthy(governance_data) THEN {"governance"} ELSE {})
          \cup {"footer"}
    /\ pc' = "idle"
    /\ NoCalls
    /\ UNCHANGED <<app, envvars, cache, conn_state, since_clear, clears, auto_refresh,
                   button, recommendations, scriptvars, prev_card, detailvars>>

----------------------------------------------------------------------------
(* The user and the clock *)

\* seconds between two looks at the clock
TickStep == sleep_seconds \div 2

\* the script is not running its own statements: it has ended or it sleeps
Waiting == pc \in {"idle", "sleeping"}

\* the user ticks or unticks the checkbox; a page at rest runs its script again
ToggleAutoRefresh ==
    /\ Waiting
    /\ auto_refresh' = ~auto_refresh
    /\ pc' = IF pc = "idle" THEN "top" ELSE pc
    /\ NoCalls
    /\ UNCHANGED <<app, envvars, cache, conn_state, since_clear, clears, button, rendered,
                   recommendations, scriptvars, prev_card, detailvars>>

\* the user presses the refresh button
PressRefresh ==
    /\ Waiting
    /\ ~button
    /\ clears < MaxClears
    /\ button' = TRUE
    /\ pc' = IF pc = "idle" THEN "top" ELSE pc
    /\ NoCalls
    /\ UNCHANGED <<app, envvars, cache, conn_state, since_clear, clears, auto_refresh,
                   rendered, recommendations, scriptvars, prev_card, detailvars>>

\* the browser loads the page anew: a new session, its widgets at their
\* defaults, runs the script; the cache belongs to the process and stays
Reload ==
    /\ Waiting
    /\ auto_refresh' = (app = "DQ")
    /\ button' = FALSE
    /\ pc' = "top"
    /\ NoCalls
    /\ filters' = AllFilters
    /\ UNCHANGED <<app, envvars, cache, conn_state, since_clear, clears, rendered,
                   recommendations, scriptvars, prev_card, filtered_df, alerts>>

\* the user picks an option in one of the selectboxes of the rendered detail
\* section; the script runs again
SetFilter ==
    /\ app = "DQ" /\ pc = "idle"
    /\ "detail" \in rendered
    /\ \E w \in DOMAIN filters : \E v \in Options(dmf_data)[w] :
          /\ v # filters[w]
          /\ filters' = [filters EXCEPT ![w] = v]
    /\ pc' = "top"
    /\ NoCalls
    /\ UNCHANGED <<app, envvars, cache, conn_state, since_clear, clears, uivars,
                   scriptvars, prev_card, filtered_df, alerts>>

\* time passes while the page is at rest or waits for the warehouse
Tick ==
    /\ pc \in {"idle", "fetch_pipeline", "fetch_dmf", "fetch_functions",
               "fetch_analytics", "fetch_governance"}
    /\ now + TickStep <= MaxTime
    /\ now' = now + TickStep
    /\ NoCalls
    /\ UNCHANGED <<app, pc, last_load, dq_results, dmf_refs, cache, conn_state,
                   since_clear, clears, uivars, scriptvars, prev_card, detailvars>>

----------------------------------------------------------------------------
(* The two pages *)

\* the monitoring results the data-quality page may find
QualityTables ==
    {<< >>,
     <<RawRow("CLAIMS_RAW", s_NULL_COUNT, 0), RawRow("CUSTOMER_RAW", s_DUPLICATE_COUNT, 0)>>,
     <<RawRow("CLAIMS_RAW", s_NULL_COUNT, 21), RawRow("CUSTOMER_RAW", s_INVALID_ \o s_AGE, 2),
       RawRow("CLAIMS_RAW", s_ROW_COUNT, 7), RawRow("CUSTOMER_RAW", s_DUPLICATE_COUNT, 10)>>}

FunctionRef(status) == [schedule_status |-> status]

\* the function references it may find
FunctionTables ==
    {<<FunctionRef("STARTED")>>, <<FunctionRef("STARTED"), FunctionRef("SUSPENDED")>>}

\* ages of the last load at time 0, in seconds: 10, 120, 120.5 and 150 minutes
LoadAges == {600, 7200, 7230, 9000}

Init ==
    /\ app \in {"DQ", "RISK"}
    /\ pc = "top"
    /\ now = 0
    /\ IF app = "DQ"
       THEN /\ last_load \in {0 - a : a \in LoadAges}
            /\ dq_results \in QualityTables
            /\ dmf_refs \in FunctionTables
            /\ auto_refresh = TRUE
       ELSE /\ last_load = 0
            /\ dq_results = << >>
            /\ dmf_refs = << >>
            /\ auto_refresh = FALSE
    /\ CacheStart /\ UIStart /\ ScriptStart

Next ==
    \/ DQ_Header \/ DQ_AutoRefresh \/ DQ_SleepRerun
    \/ DQ_FetchPipeline \/ DQ_FetchDmf \/ DQ_Score \/ DQ_Overview \/ DQ_Detail
    \/ DQ_FetchFunctions \/ DQ_Functions \/ DQ_Alerts \/ DQ_Recommendations \/ DQ_Footer
    \/ Risk_Header \/ Risk_AutoRefresh \/ Risk_SleepRerun
    \/ Risk_FetchAnalytics \/ Risk_FetchGovernance \/ Risk_Check \/ Risk_Sections
    \/ ToggleAutoRefresh \/ PressRefresh \/ Reload \/ SetFilter \/ Tick

Spec == Init /\ [][Next]_vars

----------------------------------------------------------------------------
(* Specification of the sections below the fetches: the script run has just
   fetched its pipeline status and its quality rows, and goes on from there *)

\* the monitoring results such a run may have found
RenderTables ==
    QualityTables \cup
    {<<RawRow("CLAIMS_RAW", s_NULL_COUNT, 10), RawRow("CLAIMS_RAW", s_ROW_COUNT, 7),
       RawRow("CUSTOMER_RAW", s_DUPLICATE_COUNT, 0)>>,
     <<RawRow("CLAIMS_RAW", s_INVALID_ \o s_AGE, 11), RawRow("CUSTOMER_RAW", s_INVALID_ \o s_AGE, 10),
       RawRow("CUSTOMER_RAW", s_DUPLICATE_COUNT, 3), RawRow("CLAIMS_RAW", s_NULL_COUNT, 3)>>,
     <<RawRow("CLAIMS_RAW", s_NULL_COUNT, 0), RawRow("CLAIMS_RAW", s_DUPLICATE_COUNT, 2),
       RawRow("CUSTOMER_RAW", s_NULL_COUNT, 0), RawRow("CUSTOMER_RAW", s_INVALID_ \o s_AGE, 0)>>}

\* an entry stored at time t by a fetch that returned v
EntryAt(v, t, ok) == [present |-> TRUE, value |-> v, at |-> t, gen |-> 0, ok |-> ok]

\* get_pipeline_status() ran a minute ago on connection 1 and failed or
\* succeeded; get_dmf_results() ran just now on connection 2 and succeeded;
\* auto-refresh is off, the selectboxes hold what the user chose in an earlier
\* run among the same options, and the script stands before the score
\* computation
InitRender ==
    /\ app = "DQ"
    /\ pc = "score"
    /\ now = 0
    /\ last_load \in {0 - a : a \in LoadAges}
    /\ dq_results \in RenderTables
    /\ dmf_refs \in FunctionTables
    /\ auto_refresh = FALSE
    /\ button = FALSE
    /\ pipeline_data \in {EmptyDict, PipelineResults(last_load, 0 - ttl_get_connection)}
    /\ dmf_data = DmfQuery(dq_results)
    /\ cache = [f \in Funcs |->
                  CASE f = "get_pipeline_status" ->
                           EntryAt(pipeline_data, 0 - ttl_get_connection, Truthy(pipeline_data))
                    [] f = "get_dmf_results" -> EntryAt(dmf_data, 0, TRUE)
                    [] f = "get_connection" -> EntryAt(2, 0, TRUE)
                    [] OTHER -> NoEntry]
    /\ conn_state = <<"closed", "closed">>
    /\ called = ("get_dmf_results" :> dmf_data) @@ ("get_connection" :> 2)
    /\ ran = {"get_dmf_results", "get_connection"}
    /\ since_clear = {"get_pipeline_status", "get_dmf_results", "get_connection"}
    /\ clears = 0
    /\ rendered = {"header"} \cup (IF Truthy(pipeline_data) THEN {}
                                   ELSE {"Error fetching pipeline status"})
    /\ recommendations = <<>>
    /\ filters \in [table_filter  : Options(dmf_data).table_filter,
                     check_filter  : Options(dmf_data).check_filter,
                     status_filter : Options(dmf_data).status_filter]
    /\ filtered_df = <<>>
    /\ alerts = <<>>
    /\ dmf_functions = <<>>
    /\ overall_score = ZeroScore
    /\ quality_rating = "NO DATA"
    /\ analytics_data = Unset
    /\ governance_data = Unset
    /\ prev_card = Unset

\* the rest of the script run, and the clock
NextRender ==
    \/ DQ_Score \/ DQ_Overview \/ DQ_Detail
    \/ DQ_FetchFunctions \/ DQ_Functions \/ DQ_Alerts \/ DQ_Recommendations \/ DQ_Footer
    \/ Tick

SpecRender == InitRender /\ [][NextRender]_vars

----------------------------------------------------------------------------
(* Claims about the pages *)

StaleRecommendation == "Data pipeline may need attention"

\* C8: whenever the last load is more than 120 minutes in the past, the page
\* the user is looking at (the script has ended, or waits for the next
\* automatic refresh) has freshness status STALE and shows the "pipeline may
\* need attention" recommendation.
C8_StaleRecommended ==
    (app = "DQ" /\ Waiting /\ DateDiffMinute(last_load, now) > 120) =>
        /\ Truthy(pipeline_data)
        /\ pipeline_data.data_freshness.FRESHNESS_STATUS = "STALE"
        /\ "recommendations" \in rendered
        /\ \E i \in DOMAIN recommendations : recommendations[i] = StaleRecommendation

\* C9: a call of a cached function whose entry is younger than the function's
\* time to live returns that entry and does not run the fetch; a call with no
\* entry, or with an entry as old as the time to live or older, runs the fetch.
C9_CacheWithinTTL ==
    [][\A f \in DOMAIN called' :
          /\ (cache[f].present /\ now - cache[f].at < TTL(f)) =>
                 /\ f \notin ran'
                 /\ called'[f] = cache[f].value
                 /\ cache'[f] = cache[f]
          /\ (cache[f].present /\ now - cache[f].at >= TTL(f)) => f \in ran'
          /\ (~cache[f].present) => f \in ran'
          /\ (f \in ran') => (cache'[f].present /\ cache'[f].at = now
                               /\ cache'[f].value = called'[f])]_vars

\* the last step served the analytics fetch from an entry stored earlier
C9_Witness ==
    /\ "get_risk_analytics_data" \in DOMAIN called
    /\ "get_risk_analytics_data" \notin ran
    /\ cache["get_risk_analytics_data"].at < now
    /\ analytics_data = cache["get_risk_analytics_data"].value

\* C10: after a clear, the first call of every cached function runs the fetch,
\* even at a time when an entry stored before the clear would still be served;
\* an entry a call returns was never stored before the last clear.
C10_ClearForcesFetch ==
    [][\A f \in DOMAIN called' :
          /\ (clears > 0 /\ f \notin since_clear) => f \in ran'
          /\ (f \notin ran') => (cache[f].present /\ cache[f].gen = clears)]_vars

\* after a clear a fetch opened a second connection, at a time when the
\* first one (opened after the first sleep at the earliest, cached for 60
\* seconds) would still have been served
C10_Witness ==
    /\ clears > 0
    /\ now < sleep_seconds + ttl_get_connection
    /\ {"get_pipeline_status", "get_connection"} \subseteq ran
    /\ Len(conn_state) >= 2

\* C11: a fetch that fails (no connection, or a query that raises) stores
\* nothing in the cache, and a call that is served from the cache is never
\* served the result of a failed fetch: within the time to live the next call
\* runs the fetch again.
C11_NoNegativeCaching ==
    [][\A f \in DOMAIN called' :
          /\ (f \in ran' /\ cache'[f].present /\ cache'[f].at = now) => cache'[f].ok
          /\ (f \notin ran') => cache[f].ok]_vars

----------------------------------------------------------------------------
(* The refresh cycle *)

\* the statements of the two scripts: the interpreter runs the next one
ScriptStep ==
    \/ DQ_Header \/ DQ_AutoRefresh \/ DQ_SleepRerun
    \/ DQ_FetchPipeline \/ DQ_FetchDmf \/ DQ_Score \/ DQ_Overview \/ DQ_Detail
    \/ DQ_FetchFunctions \/ DQ_Functions \/ DQ_Alerts \/ DQ_Recommendations \/ DQ_Footer
    \/ Risk_Header \/ Risk_AutoRefresh \/ Risk_SleepRerun
    \/ Risk_FetchAnalytics \/ Risk_FetchGovernance \/ Risk_Check \/ Risk_Sections

\* one warehouse: a load 150 minutes old, the results with an issue, a
\* suspended function
InitLive ==
    /\ Init
    /\ app = "DQ" =>
          /\ last_load = 0 - 9000
          /\ Len(dq_results) = 4
          /\ Len(dmf_refs) = 2

\* a script that has a next statement executes it; the user may stay away
SpecLive == InitLive /\ [][Next]_vars /\ WF_vars(ScriptStep)

\* the refresh cycle: a script run is under way / the page is rendered down
\* to the footer and awaits a trigger
Refreshing == pc = "top"
Idle == pc = "idle" /\ "footer" \in rendered

\* C12: every started refresh (manual button, or the 30-second timer with
\* auto-refresh enabled) eventually completes back to Idle with the page
\* rendered, also when auto-refresh stays enabled.
C12_RefreshCompletes == Refreshing ~> Idle

\* the two ways a refresh starts: the sleep of the auto-refresh block ends in
\* st.rerun(), or the script handles the pressed button
TimerRefresh == pc = "sleeping" /\ pc' = "top" /\ now' = now + sleep_seconds
ButtonRefresh == pc = "top" /\ button /\ pc' = "top"

\* C13: every refresh, by the timer or by the button, clears the cache before
\* the page is rendered again: when the refreshed run starts, no result that
\* was fetched before the refresh can still be served to a section.
C13_RefreshClearsCache ==
    [][(TimerRefresh \/ ButtonRefresh) =>
          \A f \in Funcs : ~IsCached(f, cache', now')]_vars

\* C14: a fetch of the data-quality page that gets a connection gets one that
\* was opened for it (by this very call) and leaves it closed; it never
\* queries on a connection an earlier fetch closed, and after the fetch no
\* connection is left open.
C14_ConnectionPerFetch ==
    [][\A f \in ran' \ {"get_connection"} :
          ("get_connection" \in DOMAIN called' /\ called'["get_connection"] # 0) =>
              LET conn == called'["get_connection"]
              IN  /\ conn = Len(conn_state) + 1
                  /\ "get_connection" \in ran'
                  /\ \A i \in DOMAIN conn_state' : conn_state'[i] = "closed"]_vars

\* C15: whatever fetch failed or came back empty, a script run that has ended
\* was not aborted: it rendered the footer and every section whose own data
\* was fetched, on both pages.
C15_FailureKeepsRendering ==
    (pc = "idle") =>
        /\ "footer" \in rendered
        /\ (app = "DQ" /\ Truthy(pipeline_data)) => {"overview", "recommendations"} \subseteq rendered
        /\ (app = "DQ" /\ dmf_data # <<>>) => {"detail", "trends", "summary"} \subseteq rendered
        /\ (app = "DQ" /\ dmf_functions # <<>>) => "functions" \in rendered
        /\ (app = "RISK" /\ Truthy(analytics_data)) => {"overview", "analysis"} \subseteq rendered
        /\ (app = "RISK" /\ Truthy(governance_data)) => "governance" \in rendered

\* C16: a script run, once started, renders every section down to the footer
\* before the next trigger is processed: the timer restarts the script only
\* after the footer, the button is taken only from a page at rest, and a step
\* runs the body of at most one query function.
C16_PassRunsToFooter ==
    [][/\ TimerRefresh => "footer" \in rendered
       /\ (button' /\ ~button) => Waiting
       /\ Cardinality(ran' \ {"get_connection"}) <= 1]_vars

----------------------------------------------------------------------------
(* Claims about the sections of the data-quality page *)

\* the quality rows the run fetched: what get_dmf_results() returned to it
FetchedRows == cache["get_dmf_results"].value

\* the script run on the data-quality page has ended
PassEnded == app = "DQ" /\ pc = "idle"

\* C18: the filter selection decides the rows of the detail table and nothing
\* else: at the end of a run the quality rows are the fetched ones, and the
\* score, the rating, the alerts and the recommendations are those of all
\* fetched rows, whatever the three selectboxes hold.
C18_FiltersOnlyDetailTable ==
    PassEnded =>
        /\ dmf_data = FetchedRows
        /\ overall_score = CalcOverallScore(FetchedRows)
        /\ quality_rating = CalcQualityRating(FetchedRows)
        /\ alerts = (IF FetchedRows # <<>> THEN AlertsOf(FetchedRows) ELSE <<>>)
        /\ Truthy(pipeline_data) =>
               recommendations = Recommendations(pipeline_data, FetchedRows, dmf_functions,
                                                 CalcOverallScore(FetchedRows))
        /\ (FetchedRows # <<>>) => filtered_df = ApplyFilters(FetchedRows, filters)

\* the status filter hides the rows that need attention from the detail
\* table, and the alerts and the recommendation about them are still shown
C18_Witness ==
    /\ PassEnded
    /\ filters.status_filter = "GOOD"
    /\ filtered_df # <<>> /\ Len(filtered_df) < Len(dmf_data)
    /\ CountStatus(filtered_df, "NEEDS ATTENTION") = 0
    /\ Len(alerts) = 2
    /\ Truthy(pipeline_data)
    /\ \E i \in DOMAIN recommendations : recommendations[i] = "DMF checks need attention"

OptimalRecommendation == "Pipeline is running optimally"
BelowOptimalRecommendation == "Overall DMF quality score is below optimal"

\* the recommendation list has been written by this run
Recommended == app = "DQ" /\ pc \in {"footer", "idle"} /\ Truthy(pipeline_data)

\* the conditions of the four other recommendations
NeedsAttentionApplies == CountStatus(dmf_data, "NEEDS ATTENTION") > 0
StaleApplies == pipeline_data.data_freshness.FRESHNESS_STATUS = "STALE"
StoppedApplies == \E i \in DOMAIN dmf_functions : dmf_functions[i].schedule_status # "STARTED"
BelowOptimalApplies == ~ScoreAtLeast(overall_score, 85)

\* C19: with pipeline status data present the recommendation list is not
\* empty; the "running optimally" entry is in it exactly when none of the
\* other four applies, and then it is the only entry; with no quality rows
\* the score is 0, the rating NO DATA, "below optimal" is listed and
\* "running optimally" is not.
C19_Recommendations ==
    Recommended =>
        LET listed == {recommendations[i] : i \in DOMAIN recommendations}
        IN  /\ recommendations # <<>>
            /\ (OptimalRecommendation \in listed) <=>
                   ~(NeedsAttentionApplies \/ StaleApplies \/ StoppedApplies
                       \/ BelowOptimalApplies)
            /\ (OptimalRecommendation \in listed) => recommendations = <<OptimalRecommendation>>
            /\ (dmf_data = <<>>) =>
                   /\ overall_score = ZeroScore
                   /\ quality_rating = "NO DATA"
                   /\ BelowOptimalRecommendation \in listed
                   /\ OptimalRecommendation \notin listed

\* all functions started, fresh data, good rows: the only entry is "optimal"
C19_Witness ==
    /\ Recommended
    /\ dmf_functions # <<>> /\ dmf_data # <<>>
    /\ ~(NeedsAttentionApplies \/ StaleApplies \/ StoppedApplies \/ BelowOptimalApplies)
    /\ recommendations = <<OptimalRecommendation>>

\* the alerts section has been written by this run
Alerted == app = "DQ" /\ pc \in {"recommendations", "footer", "idle"} /\ dmf_data # <<>>

\* the rows with status NEEDS ATTENTION, in order, as alerts without severity
IssueRows ==
    LET NeedsAttention(r) == r.quality_status = "NEEDS ATTENTION"
        issues == SelectSeq(dmf_data, NeedsAttention)
    IN  [i \in DOMAIN issues |-> [table_name |-> issues[i].table_name,
                                  metric_name |-> issues[i].metric_name,
                                  value |-> issues[i].value]]

\* C20: with quality rows present there is exactly one alert for each row
\* with status NEEDS ATTENTION, Critical when the value is above 10 and
\* Warning otherwise; the success message is shown exactly when no row needs
\* attention, whatever FAIR or MONITORING rows there are; an alert for a
\* null-count metric is always Critical.
C20_Alerts ==
    Alerted =>
        /\ [i \in DOMAIN alerts |-> [table_name |-> alerts[i].table_name,
                                     metric_name |-> alerts[i].metric_name,
                                     value |-> alerts[i].value]] = IssueRows
        /\ \A i \in DOMAIN alerts :
              /\ (alerts[i].value > 10) => alerts[i].severity = "Critical"
              /\ (alerts[i].value <= 10) => alerts[i].severity = "Warning"
              /\ EndsWith(alerts[i].metric_name, s_NULL_COUNT) => alerts[i].severity = "Critical"
        /\ ("all checks are excellent" \in rendered) <=>
               (CountStatus(dmf_data, "NEEDS ATTENTION") = 0)
        /\ ("issues" \in rendered) <=> (CountStatus(dmf_data, "NEEDS ATTENTION") > 0)

\* a Critical null-count alert, a Warning alert at value 10, and rows that are
\* not alerted
C20_Witness ==
    /\ Alerted
    /\ Len(alerts) = 2 /\ Len(dmf_data) = 4
    /\ \E i \in DOMAIN alerts :
          EndsWith(alerts[i].metric_name, s_NULL_COUNT) /\ alerts[i].severity = "Critical"
    /\ \E i \in DOMAIN alerts : alerts[i].value = 10 /\ alerts[i].severity = "Warning"

\* the detail table has been written by this run
DetailShown ==
    /\ app = "DQ" /\ "detail" \in rendered
    /\ pc \in {"fetch_functions", "functions", "alerts", "recommendations", "footer", "idle"}

\* a row passes a filter that is "All" or that names the row's own value
Passes(r) ==
    /\ filters.table_filter \in {"All", r.table_name}
    /\ filters.check_filter \in {"All", r.check_type}
    /\ filters.status_filter \in {"All", r.quality_status}

\* the positions of the fetched rows that pass all three filters, and the
\* k-th of them in fetched order
PassingRows == {i \in DOMAIN dmf_data : Passes(dmf_data[i])}
KthPassing(k) == CHOOSE i \in PassingRows : Cardinality({j \in PassingRows : j <= i}) = k

\* C21: the detail table holds exactly the fetched rows that pass all three
\* filters at once, in fetched order; a filter at "All" excludes no row, all
\* three at "All" show every row, and filtering the table again with the same
\* selection changes nothing.
C21_DetailTable ==
    DetailShown =>
        /\ Len(filtered_df) = Cardinality(PassingRows)
        /\ \A k \in DOMAIN filtered_df : filtered_df[k] = dmf_data[KthPassing(k)]
        /\ (filters = AllFilters) => filtered_df = dmf_data
        /\ ApplyFilters(filtered_df, filters) = filtered_df

\* two filters are set, and each alone would keep more rows than both together:
\* the first fetched row fails the table filter, the last the status filter
C21_Witness ==
    /\ DetailShown
    /\ filters = [table_filter |-> "CUSTOMER_RAW", check_filter |-> "All",
                  status_filter |-> "NEEDS ATTENTION"]
    /\ Len(dmf_data) = 4
    /\ Len(filtered_df) = 2
    /\ filtered_df = <<dmf_data[2], dmf_data[3]>>
    /\ CountStatus(dmf_data, "NEEDS ATTENTION") = 3

====
